---- MODULE Spec2Model ----
(***************************************************************************)
(* The random-walk loop of the "Random Walks with Future" notebook cells:  *)
(* a batch of step tasks is submitted to the dask client, as_completed     *)
(* hands finished futures to a for loop, and the loop resubmits a walker   *)
(* that is still inside the circle of radius 2 or reports it done.         *)
(*                                                                         *)
(* Positions are kept on a grid of 1/Scale units; the draws of              *)
(* random.uniform(-1, 1) are taken from UniformDraws.  A future is named   *)
(* by <<id, n>>: the n-th submission made for walk id.                     *)
(***************************************************************************)
EXTENDS Integers, Sequences, FiniteSets, TLC

\* ------------------------------------------------------------------ bounds
\* Largest number of walks the seeding cell is run with.
MaxWalks == 2
\* Largest number of steps of one walk whose draws are free: from there on
\* the draws are those that take the walker out of the circle.
MaxSteps == 3
\* Number of failures (of a step, of submit, of the wait) the cluster may produce.
MaxFaults == 1
\* Largest number of actors constructed, of the three classes together.
MaxActors == 3
\* Largest number of method calls made on the actors.
MaxCalls == 3
\* How far on either side of a threshold the prices of the series are taken.
PriceWindow == 5
\* Largest length of the series of prices.
MaxSeries == 2

\* ------------------------------------------------------ program constants
\* Grid units per unit of distance.
Scale == 2
\* max_distance_squared = 2*2
max_distance_squared == 4

VARIABLES
    num_walks,  \* num_walks of the cell being run
    stepKind,   \* which step function the pool runs
    pc,         \* "seeding", "loop", "done" (for loop left), "aborted" (exception left the cell)
    seedIdx,    \* the i the list comprehension submits next
    futures,    \* live futures: key -> [arg, status, res]
    pending,    \* keys held by as_completed and not yet handed to the loop
    queue,      \* finished keys, in the order they finished
    out,        \* what the cell printed, line by line
    error,      \* the exception that left the cell, "none" if none
    failedId,   \* the walk whose failed step the loop observed, -1 if none
    submits,    \* per walk: client.submit calls made
    invoked,    \* per walk: step invocations the pool ran to an end
    observed,   \* keys whose result the loop has taken
    faults,     \* failures produced so far
    classes,    \* class name -> the attributes set in the class body
    actors,     \* the actor instances, in the order they were constructed:
                \* [cls, attrs], attrs being the instance's own attributes
    calls,      \* the method calls made on actors, in the order they were made
    y_train,    \* the series of prices threshold is applied to
    y_train_cat \* y_train.apply(threshold), the empty series before the cell runs

loopVars == <<num_walks, stepKind, pc, seedIdx, futures, pending, queue, out,
              error, failedId, submits, invoked, observed, faults>>

actorVars == <<classes, actors, calls>>

priceVars == <<y_train, y_train_cat>>

vars == <<loopVars, actorVars, priceVars>>

Ids == 0 .. (MaxWalks - 1)
Seeds == 0 .. (num_walks - 1)

\* ------------------------------------------------------------- the step
\* "random" is the notebook's step, whose two draws are random.uniform(-1, 1).
\* The others are steps that draw nothing: "plusHalfX" always adds 0.5 to x,
\* "plusTwoX" always adds 2 to x, "byId" adds a delta fixed by the walk's id.
StepKinds == {"random", "plusHalfX", "plusTwoX", "byId"}

\* "stayId1" is a step under which walk 1 never leaves the circle: it adds
\* nothing to the position of walk 1 and 1 to the x of any other walk.  The
\* pool runs the first MaxSteps + 1 steps of walk 1 and holds the next.
NoLimitKinds == {"stayId1"}

\* The pairs (u, v) the two random.uniform(-1, 1) calls of one step are drawn
\* from, in grid units: a full unit along one axis.
UniformDraws == {<<Scale, 0>>, <<-Scale, 0>>, <<0, Scale>>, <<0, -Scale>>}

\* A step that returns the class default id = 0 in place of pos[0].
stepIdDefault(pos, u, v) == <<0, pos[2] + u, pos[3] + v>>

\* def step(pos): id = pos[0]; x = pos[1] + u; y = pos[2] + v; return (id, x, y)
step(pos, u, v) == <<pos[1], pos[2] + u, pos[3] + v>>

\* The test with <= : a walker on the circle is sent to a further step.
should_continueInclusive(r) ==
    (r[2] * r[2] + r[3] * r[3]) <= max_distance_squared * Scale * Scale

\* (r[1]**2 + r[2]**2) < max_distance_squared, on the grid
should_continue(r) ==
    (r[2] * r[2] + r[3] * r[3]) < max_distance_squared * Scale * Scale

\* Whether some draw takes a walker at r out of the circle.
CanLeave(r) == \E d \in UniformDraws : ~should_continue(step(r, d[1], d[2]))

\* The pairs of draws a step on pos may make, n being the number of the step in
\* its walk.
Draws(kind, pos, n) ==
    CASE kind = "plusHalfX" -> {<<Scale \div 2, 0>>}
      [] kind = "plusTwoX" -> {<<2 * Scale, 0>>}
      [] kind = "byId" -> {<<1 + (pos[1] % 2), -(pos[1] % 2)>>}
      [] kind = "stayId1" ->
            IF pos[1] # 1 THEN {<<Scale, 0>>}
            ELSE IF n <= MaxSteps + 1 THEN {<<0, 0>>} ELSE {}
      [] OTHER ->
            LET all == UniformDraws
                next(d) == step(pos, d[1], d[2])
            IN  IF n < MaxSteps - 1 THEN all
                ELSE IF n = MaxSteps - 1
                     THEN {d \in all : ~should_continue(next(d)) \/ CanLeave(next(d))}
                     ELSE {d \in all : ~should_continue(next(d))}

\* ------------------------------------------------------------- the loop
\* The next step run on the position alone, the walk's id left at its default.
NextItemIdLost(r) == <<0, r[2], r[3]>>

\* ac.add(client.submit(step, r)): the item the next step is run on.
NextItem(r) == r

\* The loop body adding the next step in both places it could: two submissions
\* for one result.
ResubmitsTwice(r) == IF should_continue(r) THEN <<NextItem(r), NextItem(r)>> ELSE <<>>

\* The body with ac.add moved out of the if: a further step is submitted for
\* every result, after the done line too.
ResubmitsAfterDone(r) ==
    IF should_continue(r) THEN <<NextItem(r)>>
    ELSE <<<<r[1], 0, 0>>>>

\* The body with its test the wrong way round: a walker out of the circle is
\* sent to a further step, one inside is dropped.
ResubmitsInverted(r) == IF should_continue(r) THEN <<>> ELSE <<NextItem(r)>>

\* The body without its test: every result is sent to a further step.
ResubmitsAlways(r) == <<NextItem(r)>>

\* What the loop submits after taking result r: the if/else of the loop body.
Resubmits(r) == IF should_continue(r) THEN <<NextItem(r)>> ELSE <<>>

\* The body without its else: every result is reported done.
PrintedDoneAlways(r) == <<<<"r", r[1], r[2], r[3]>>, <<"done", r[1]>>>>

\* The lines the loop body prints for result r.
Printed(r) ==
    IF should_continue(r) THEN <<<<"r", r[1], r[2], r[3]>>>>
    ELSE <<<<"r", r[1], r[2], r[3]>>, <<"done", r[1]>>>>

\* An iterator that hands a future out and keeps it.
RemainingKeeps(pend, k) == pend

\* as_completed's set once key k has been handed to the loop.
Remaining(pend, k) == pend \ {k}

NewFuture(item) == [arg |-> item, status |-> "pending", res |-> item]

Key(id, n) == <<id, n>>

\* ------------------------------------------------------------ the classes
\* The class bodies of Walker, Borrower and Bank: the attributes set at class
\* level.  bank = None is the empty tuple, a reference to actor o is <<o>>.
ClassDefaults ==
    [Walker |-> [distance_limit |-> max_distance_squared, x |-> 0, y |-> 0, id |-> 0],
     Borrower |-> [debt |-> 0, bank |-> << >>],
     Bank |-> [funds |-> 0]]

\* No actor has been constructed, no method called.
InitActors ==
    /\ classes = ClassDefaults
    /\ actors = << >>
    /\ calls = << >>

\* The labelling cell has not been run.
InitPrices == y_train = << >> /\ y_train_cat = << >>

\* The state before the seeding cell runs, the step function apart.
InitCell ==
    /\ num_walks \in 1 .. MaxWalks
    /\ pc = "seeding"
    /\ seedIdx = 0
    /\ futures = << >>
    /\ pending = {}
    /\ queue = << >>
    /\ out = << >>
    /\ error = "none"
    /\ failedId = -1
    /\ submits = [i \in Ids |-> 0]
    /\ invoked = [i \in Ids |-> 0]
    /\ observed = {}
    /\ faults = 0

Init == stepKind \in StepKinds /\ InitCell /\ InitActors /\ InitPrices

InitNoLimit == stepKind \in NoLimitKinds /\ InitCell /\ InitActors /\ InitPrices

\* One client.submit(step, (i,0,0)) of the list comprehension.
SubmitSeed ==
    /\ UNCHANGED <<actorVars, priceVars>>
    /\ pc = "seeding"
    /\ seedIdx < num_walks
    /\ futures' = (Key(seedIdx, 1) :> NewFuture(<<seedIdx, 0, 0>>)) @@ futures
    /\ submits' = [submits EXCEPT ![seedIdx] = 1]
    /\ seedIdx' = seedIdx + 1
    /\ UNCHANGED <<num_walks, stepKind, pc, pending, queue, out, error,
                   failedId, invoked, observed, faults>>

\* as_completed([...]) takes the futures of the list.
MakeAsCompleted ==
    /\ UNCHANGED <<actorVars, priceVars>>
    /\ pc = "seeding"
    /\ seedIdx = num_walks
    /\ pending' = DOMAIN futures
    /\ pc' = "loop"
    /\ UNCHANGED <<num_walks, stepKind, seedIdx, futures, queue, out, error,
                   failedId, submits, invoked, observed, faults>>

\* The exception of client.submit caught and noted, the cell going on.
SubmitRaisesNoted ==
    /\ pc' = pc
    /\ error' = "submit"
    /\ faults' = faults + 1

\* client.submit raises, in the list comprehension or in the loop body: the
\* exception leaves the cell.
SubmitRaises ==
    /\ pc' = "aborted"
    /\ error' = "submit"
    /\ faults' = faults + 1

SeedSubmitFails ==
    /\ UNCHANGED <<actorVars, priceVars>>
    /\ pc = "seeding"
    /\ seedIdx < num_walks
    /\ faults < MaxFaults
    /\ SubmitRaises
    /\ UNCHANGED <<num_walks, stepKind, seedIdx, futures, pending, queue, out,
                   failedId, submits, invoked, observed>>

\* A worker runs the step of future k to its end.
PoolFinish(k) ==
    /\ UNCHANGED <<actorVars, priceVars>>
    /\ k \in DOMAIN futures
    /\ futures[k].status = "pending"
    /\ \E d \in Draws(stepKind, futures[k].arg, k[2]) :
          futures' = [futures EXCEPT ![k].status = "finished",
                                     ![k].res = step(futures[k].arg, d[1], d[2])]
    /\ queue' = Append(queue, k)
    /\ invoked' = [invoked EXCEPT ![k[1]] = @ + 1]
    /\ UNCHANGED <<num_walks, stepKind, pc, seedIdx, pending, out, error,
                   failedId, submits, observed, faults>>

\* The step of future k ends in an exception (the worker is lost, the task errs).
PoolFail(k) ==
    /\ UNCHANGED <<actorVars, priceVars>>
    /\ k \in DOMAIN futures
    /\ futures[k].status = "pending"
    /\ faults < MaxFaults
    /\ futures' = [futures EXCEPT ![k].status = "error"]
    /\ queue' = Append(queue, k)
    /\ faults' = faults + 1
    /\ UNCHANGED <<num_walks, stepKind, pc, seedIdx, pending, out, error,
                   failedId, submits, invoked, observed>>

\* The future k is cancelled by a holder of it (Future.cancel, client.cancel)
\* while its step is outstanding; as_completed hands a cancelled future on.
PoolCancel(k) ==
    /\ UNCHANGED <<actorVars, priceVars>>
    /\ k \in DOMAIN futures
    /\ futures[k].status = "pending"
    /\ pc = "loop"
    /\ faults < MaxFaults
    /\ futures' = [futures EXCEPT ![k].status = "cancelled"]
    /\ queue' = Append(queue, k)
    /\ faults' = faults + 1
    /\ UNCHANGED <<num_walks, stepKind, pc, seedIdx, pending, out, error,
                   failedId, submits, invoked, observed>>

\* The futures submitted for the items of seq, keyed from the walk's count on.
RECURSIVE Submitted(_, _)
Submitted(items, subs) ==
    IF items = << >> THEN << >>
    ELSE LET it == Head(items)
             k == Key(it[1], subs[it[1]] + 1)
         IN  (k :> NewFuture(it))
             @@ Submitted(Tail(items), [subs EXCEPT ![it[1]] = @ + 1])

RECURSIVE CountIn(_, _)
CountIn(items, id) ==
    IF items = << >> THEN 0
    ELSE (IF Head(items)[1] = id THEN 1 ELSE 0) + CountIn(Tail(items), id)

Drop(f, k) == [x \in (DOMAIN f) \ {k} |-> f[x]]

\* for future in ac: r = future.result() raises the step's exception, or
\* CancelledError on a cancelled future.
ResultRaises(k) ==
    /\ pc' = "aborted"
    /\ error' = IF futures[k].status = "cancelled" THEN "cancelled" ELSE "step"
    /\ failedId' = IF futures[k].status = "cancelled" THEN failedId ELSE k[1]
    /\ pending' = Remaining(pending, k)
    /\ UNCHANGED <<out, submits, faults>>

\* A body with a step limit built in: the result of a walk's second
\* submission is reported done whatever the test says.
BodyOnResultLimited(k, r) ==
    LET stop == k[2] >= 2 \/ ~should_continue(r)
        new == IF stop THEN << >> ELSE Submitted(<<NextItem(r)>>, submits)
    IN  /\ out' = out \o (IF stop THEN PrintedDoneAlways(r)
                                  ELSE <<<<"r", r[1], r[2], r[3]>>>>)
        /\ futures' = new @@ Drop(futures, k)
        /\ pending' = Remaining(pending, k) \cup DOMAIN new
        /\ submits' = [i \in Ids |->
                          submits[i] + (IF ~stop /\ i = r[1] THEN 1 ELSE 0)]
        /\ UNCHANGED <<pc, error, failedId, faults>>

\* client.submit(step, r) alone: the future is not given to as_completed.
AddedNowhere(pend, keys) == pend

\* ac.add(future): as_completed waits for the added futures too.
Added(pend, keys) == pend \cup keys

\* The body of the loop on a result r, every submit succeeding.
BodyOnResult(k, r) ==
    LET new == Submitted(Resubmits(r), submits)
    IN  /\ out' = out \o Printed(r)
        /\ futures' = new @@ Drop(futures, k)
        /\ pending' = Added(Remaining(pending, k), DOMAIN new)
        /\ submits' = [i \in Ids |-> submits[i] + CountIn(Resubmits(r), i)]
        /\ UNCHANGED <<pc, error, failedId, faults>>

\* The body of the loop on a result r whose client.submit raises.
BodySubmitFails(k, r) ==
    /\ Resubmits(r) # << >>
    /\ faults < MaxFaults
    /\ out' = Append(out, <<"r", r[1], r[2], r[3]>>)
    /\ futures' = Drop(futures, k)
    /\ pending' = Remaining(pending, k)
    /\ SubmitRaises
    /\ UNCHANGED <<failedId, submits>>

\* An iterator that hands the finished futures out in the order of the seeds:
\* the waiting one of the lowest walk id first.
NextCompletedLowestId(q) ==
    CHOOSE k \in {q[j] : j \in DOMAIN q} :
        \A j \in DOMAIN q : k[1] <= q[j][1]

\* as_completed hands out the future that finished first.
NextCompleted(q) == Head(q)

\* One iteration of "for future in ac": the next finished future and the body.
LoopIter ==
    /\ UNCHANGED <<actorVars, priceVars>>
    /\ pc = "loop"
    /\ queue # << >>
    /\ LET k == NextCompleted(queue)
       IN  /\ queue' = SelectSeq(queue, LAMBDA x : x # k)
           /\ observed' = observed \cup {k}
           /\ IF futures[k].status \in {"error", "cancelled"}
              THEN /\ ResultRaises(k)
                   /\ futures' = Drop(futures, k)
              ELSE \/ BodyOnResult(k, futures[k].res)
                   \/ BodySubmitFails(k, futures[k].res)
    /\ UNCHANGED <<num_walks, stepKind, seedIdx, invoked>>

\* The loop ending as soon as no finished future is waiting.
CanExitNothingReady(pend) == queue = << >>

\* as_completed has nothing left: the for loop ends.
CanExit(pend) == pend = {}

LoopExit ==
    /\ UNCHANGED <<actorVars, priceVars>>
    /\ pc = "loop"
    /\ CanExit(pending)
    /\ pc' = "done"
    /\ UNCHANGED <<num_walks, stepKind, seedIdx, futures, pending, queue, out,
                   error, failedId, submits, invoked, observed, faults>>

\* The wait for the next finished future raises.
WaitFails ==
    /\ UNCHANGED <<actorVars, priceVars>>
    /\ pc = "loop"
    /\ pending # {}
    /\ queue = << >>
    /\ faults < MaxFaults
    /\ pc' = "aborted"
    /\ error' = "wait"
    /\ faults' = faults + 1
    /\ UNCHANGED <<num_walks, stepKind, seedIdx, futures, pending, queue, out,
                   failedId, submits, invoked, observed>>

PoolFinishes == \E k \in DOMAIN futures : PoolFinish(k)

PoolFails == \E k \in DOMAIN futures : PoolFail(k)

PoolCancels == \E k \in DOMAIN futures : PoolCancel(k)

Next ==
    \/ SubmitSeed
    \/ MakeAsCompleted
    \/ SeedSubmitFails
    \/ PoolFinishes
    \/ PoolFails
    \/ PoolCancels
    \/ LoopIter
    \/ LoopExit
    \/ WaitFails

Spec == Init /\ [][Next]_vars

\* The loop run with a step under which one walk never leaves the circle.
SpecNoLimit == InitNoLimit /\ [][Next]_vars

FairNoLimit ==
    /\ SpecNoLimit
    /\ WF_vars(SubmitSeed)
    /\ WF_vars(MakeAsCompleted)
    /\ WF_vars(LoopIter)
    /\ WF_vars(LoopExit)
    /\ WF_vars(PoolFinishes)

\* The cell keeps running and the workers keep finishing the steps they hold.
FairSpec ==
    /\ Spec
    /\ WF_vars(SubmitSeed)
    /\ WF_vars(MakeAsCompleted)
    /\ WF_vars(LoopIter)
    /\ WF_vars(LoopExit)
    /\ WF_vars(PoolFinishes)

\* ------------------------------------------------------------- the actors
\* An assignment that lands on the class: Walker.x = v where the method has
\* self.x = v.
setattrOnClass(acts, clss, o, f, v) ==
    <<acts, [clss EXCEPT ![acts[o].cls] = (f :> v) @@ @]>>

\* self.f = v: the attribute is set on the instance, the class is left alone.
\* The result is the pair of the actors and the classes after the assignment.
setattr(acts, clss, o, f, v) ==
    <<[acts EXCEPT ![o].attrs = (f :> v) @@ @], clss>>

\* self.f: the instance's own attribute, the class's if it has none.
getattr(acts, clss, o, f) ==
    IF f \in DOMAIN acts[o].attrs THEN acts[o].attrs[f]
    ELSE clss[acts[o].cls][f]

\* The loan granted in full, whatever the funds.
minFirst(a, b) == a

min(a, b) == IF a <= b THEN a ELSE b

\* Walker.__init__(self, id): self.x = 0; self.y = 0; self.id = id
WalkerInit(acts, clss, o, id) ==
    LET s1 == setattr(acts, clss, o, "x", 0)
        s2 == setattr(s1[1], s1[2], o, "y", 0)
    IN  setattr(s2[1], s2[2], o, "id", id)

\* Borrower.__init__(self): self.bank = None; self.debt = 0
BorrowerInit(acts, clss, o) ==
    LET s1 == setattr(acts, clss, o, "bank", << >>)
    IN  setattr(s1[1], s1[2], o, "debt", 0)

\* Bank.__init__(self, funds): self.funds = funds
BankInit(acts, clss, o, funds) == setattr(acts, clss, o, "funds", funds)

\* The arguments the notebook constructs its actors and calls borrow with.
WalkerArgs == {13, 42}
Funds == {1000, 100}
Amounts == {600, 500}

\* The actors with a fresh instance of class c, nothing set on it yet.
Constructed(c) == Append(actors, [cls |-> c, attrs |-> << >>])

InstancesOf(c) == {o \in DOMAIN actors : actors[o].cls = c}

\* client.submit(Walker, id, actor=True)
NewWalker(id) ==
    /\ Len(actors) < MaxActors
    /\ LET s == WalkerInit(Constructed("Walker"), classes, Len(actors) + 1, id)
       IN  actors' = s[1] /\ classes' = s[2]
    /\ UNCHANGED <<calls, loopVars, priceVars>>

\* client.submit(Borrower, actor=True)
NewBorrower ==
    /\ Len(actors) < MaxActors
    /\ LET s == BorrowerInit(Constructed("Borrower"), classes, Len(actors) + 1)
       IN  actors' = s[1] /\ classes' = s[2]
    /\ UNCHANGED <<calls, loopVars, priceVars>>

\* client.submit(Bank, funds, actor=True)
NewBank(funds) ==
    /\ Len(actors) < MaxActors
    /\ LET s == BankInit(Constructed("Bank"), classes, Len(actors) + 1, funds)
       IN  actors' = s[1] /\ classes' = s[2]
    /\ UNCHANGED <<calls, loopVars, priceVars>>

\* borrower.assign_bank(bank): self.bank = bank; return True
AssignBank(b, k) ==
    /\ b \in InstancesOf("Borrower")
    /\ k \in InstancesOf("Bank")
    /\ LET s == setattr(actors, classes, b, "bank", <<k>>)
       IN  actors' = s[1] /\ classes' = s[2]
    /\ UNCHANGED <<calls, loopVars, priceVars>>

\* A call of method meth on actor o.
NewCall(o, meth, amount, target, phase) ==
    [obj |-> o, method |-> meth, phase |-> phase, amount |-> amount,
     target |-> target, loan |-> 0, steps |-> 0, result |-> 0]

\* borrower.borrow(amount) up to its await: self.bank.borrow(amount) is sent
\* to the bank, or raises when self.bank is None.
BorrowCall(b, amount) ==
    /\ Len(calls) < MaxCalls
    /\ b \in InstancesOf("Borrower")
    /\ LET ref == getattr(actors, classes, b, "bank")
       IN  calls' = Append(calls,
                IF ref = << >> THEN NewCall(b, "borrow", amount, 0, "raised")
                ELSE NewCall(b, "borrow", amount, ref[1], "sent"))
    /\ UNCHANGED <<classes, actors, loopVars, priceVars>>

\* Bank.borrow whose subtraction is lost: the loan is granted, the funds stay.
BankBorrowNoDebit(c) ==
    /\ c \in DOMAIN calls
    /\ calls[c].phase = "sent"
    /\ calls' = [calls EXCEPT
                    ![c].phase = "awaited",
                    ![c].loan = min(calls[c].amount,
                                    getattr(actors, classes, calls[c].target, "funds"))]
    /\ UNCHANGED <<classes, actors, loopVars, priceVars>>

\* Bank.borrow(self, amount): loan = min(amount, self.funds); self.funds -= loan
BankBorrow(c) ==
    /\ c \in DOMAIN calls
    /\ calls[c].phase = "sent"
    /\ LET k == calls[c].target
           loan == min(calls[c].amount, getattr(actors, classes, k, "funds"))
           s == setattr(actors, classes, k, "funds",
                        getattr(actors, classes, k, "funds") - loan)
       IN  /\ actors' = s[1] /\ classes' = s[2]
           /\ calls' = [calls EXCEPT ![c].phase = "awaited", ![c].loan = loan]
    /\ UNCHANGED <<loopVars, priceVars>>

\* Borrower.borrow with self.debt = loan after its await.
BorrowResumeOverwrites(c) ==
    /\ c \in DOMAIN calls
    /\ calls[c].phase = "awaited"
    /\ LET s == setattr(actors, classes, calls[c].obj, "debt", calls[c].loan)
       IN  /\ actors' = s[1] /\ classes' = s[2]
           /\ calls' = [calls EXCEPT ![c].phase = "returned",
                                     ![c].result = calls[c].loan]
    /\ UNCHANGED <<loopVars, priceVars>>

\* Borrower.borrow after its await: self.debt += loan; return loan
BorrowResume(c) ==
    /\ c \in DOMAIN calls
    /\ calls[c].phase = "awaited"
    /\ LET b == calls[c].obj
           s == setattr(actors, classes, b, "debt",
                        getattr(actors, classes, b, "debt") + calls[c].loan)
       IN  /\ actors' = s[1] /\ classes' = s[2]
           /\ calls' = [calls EXCEPT ![c].phase = "returned",
                                     ![c].result = calls[c].loan]
    /\ UNCHANGED <<loopVars, priceVars>>

\* (self.x**2 + self.y**2) < Walker.distance_limit, on the grid
Inside(w) ==
    LET x == getattr(actors, classes, w, "x")
        y == getattr(actors, classes, w, "y")
    IN  (x * x + y * y) < classes["Walker"].distance_limit * Scale * Scale

\* A walk that starts by going back to the origin.
WalkCallFromOrigin(w) ==
    /\ Len(calls) < MaxCalls
    /\ w \in InstancesOf("Walker")
    /\ \A c \in DOMAIN calls : calls[c].phase # "running"
    /\ calls' = Append(calls, NewCall(w, "walk", 0, 0, "running"))
    /\ LET s1 == setattr(actors, classes, w, "x", 0)
           s2 == setattr(s1[1], s1[2], w, "y", 0)
       IN  actors' = s2[1] /\ classes' = s2[2]
    /\ UNCHANGED <<loopVars, priceVars>>

\* walker.walk() is started: steps = 0.  The actors are on one worker, which
\* runs their method calls on one thread, one after the other.
WalkCall(w) ==
    /\ Len(calls) < MaxCalls
    /\ w \in InstancesOf("Walker")
    /\ \A c \in DOMAIN calls : calls[c].phase # "running"
    /\ calls' = Append(calls, NewCall(w, "walk", 0, 0, "running"))
    /\ UNCHANGED <<classes, actors, loopVars, priceVars>>

\* One turn of the while loop of walk: self.x += u; self.y += v; steps += 1
WalkStep(c) ==
    /\ c \in DOMAIN calls
    /\ calls[c].phase = "running"
    /\ Inside(calls[c].obj)
    /\ LET w == calls[c].obj
           pos == <<getattr(actors, classes, w, "id"),
                    getattr(actors, classes, w, "x"),
                    getattr(actors, classes, w, "y")>>
       IN  \E d \in Draws("random", pos, calls[c].steps + 1) :
              LET s1 == setattr(actors, classes, w, "x",
                                getattr(actors, classes, w, "x") + d[1])
                  s2 == setattr(s1[1], s1[2], w, "y",
                                getattr(s1[1], s1[2], w, "y") + d[2])
              IN  actors' = s2[1] /\ classes' = s2[2]
    /\ calls' = [calls EXCEPT ![c].steps = @ + 1]
    /\ UNCHANGED <<loopVars, priceVars>>

\* The while loop of walk ends: return steps
WalkReturn(c) ==
    /\ c \in DOMAIN calls
    /\ calls[c].phase = "running"
    /\ ~Inside(calls[c].obj)
    /\ calls' = [calls EXCEPT ![c].phase = "returned", ![c].result = calls[c].steps]
    /\ UNCHANGED <<classes, actors, loopVars, priceVars>>

NewWalkers == \E id \in WalkerArgs : NewWalker(id)
NewBanks == \E f \in Funds : NewBank(f)
AssignBanks == \E b, k \in DOMAIN actors : AssignBank(b, k)
BorrowCalls == \E b \in DOMAIN actors, a \in Amounts : BorrowCall(b, a)
BankBorrows == \E c \in DOMAIN calls : BankBorrow(c)
BorrowResumes == \E c \in DOMAIN calls : BorrowResume(c)
WalkCalls == \E w \in DOMAIN actors : WalkCall(w)
WalkSteps == \E c \in DOMAIN calls : WalkStep(c)
WalkReturns == \E c \in DOMAIN calls : WalkReturn(c)

ActorNext ==
    \/ NewWalkers
    \/ NewBorrower
    \/ NewBanks
    \/ AssignBanks
    \/ BorrowCalls
    \/ BankBorrows
    \/ BorrowResumes
    \/ WalkCalls
    \/ WalkSteps
    \/ WalkReturns

\* The actor cells: the loop cell is not run.
ActorInit ==
    num_walks = 1 /\ stepKind = "random" /\ InitCell /\ InitActors /\ InitPrices

ActorSpec == ActorInit /\ [][ActorNext]_vars

\* ---------------------------------------------------------- the labelling
\* THRESHOLDS = (1200, 11000)
THRESHOLDS == <<1200, 11000>>

\* threshold with <= and >= : a price on a threshold falls in the outer class.
thresholdInclusive(p) ==
    IF p <= THRESHOLDS[1] THEN 0
    ELSE IF p >= THRESHOLDS[2] THEN 2
    ELSE 1

\* def threshold(p): THRESHOLDS[0] and THRESHOLDS[1] are the first and the
\* second element of the tuple.
threshold(p) ==
    IF p < THRESHOLDS[1] THEN 0
    ELSE IF p > THRESHOLDS[2] THEN 2
    ELSE 1

\* The prices a series is made of: price 0 and the prices around the thresholds.
Prices ==
    {0} \cup UNION {(THRESHOLDS[t] - PriceWindow) .. (THRESHOLDS[t] + PriceWindow) :
                        t \in DOMAIN THRESHOLDS}

\* y_train is some series of prices; the labelling cell has not been run.
ThresholdInit ==
    /\ num_walks = 1 /\ stepKind = "random" /\ InitCell /\ InitActors
    /\ y_train \in UNION {[1 .. n -> Prices] : n \in 1 .. MaxSeries}
    /\ y_train_cat = << >>

\* y_train_cat = y_train.apply(threshold, meta=('price','int64'))
ApplyThreshold ==
    /\ y_train_cat = << >>
    /\ y_train_cat' = [i \in DOMAIN y_train |-> threshold(y_train[i])]
    /\ UNCHANGED <<y_train, loopVars, actorVars>>

ThresholdSpec == ThresholdInit /\ [][ApplyThreshold]_vars

\* ------------------------------------------------------------ the output
Val(j) == <<out[j][2], out[j][3], out[j][4]>>
RLines(i) == {j \in DOMAIN out : out[j][1] = "r" /\ out[j][2] = i}
DoneLines(i) == {j \in DOMAIN out : out[j][1] = "done" /\ out[j][2] = i}
ErrorLines(i) == {j \in DOMAIN out : out[j][1] = "error" /\ out[j][2] = i}
PendingOf(i) == {k \in pending : k[1] = i}

\* ------------------------------------------------------------- the claims
Ended == pc = "done" \/ (pc = "aborted" /\ error = "step")

\* C1: a run of the loop produces exactly one terminal outcome (a "done" line
\* or a tagged error line) per seed item, and the outcomes' identities are
\* exactly the seeds' identities.  Stated of every run that ended by the loop
\* running out of futures or by a step's exception.
C1_OneOutcomePerSeed ==
    Ended =>
       /\ \A i \in Seeds : Cardinality(DoneLines(i) \cup ErrorLines(i)) = 1
       /\ \A j \in DOMAIN out : out[j][1] \in {"done", "error"} => out[j][2] \in Seeds

\* C2: no walk has two outstanding steps: as_completed holds at most one
\* future per walk, the pool runs at most one step per walk, and the n+1-st
\* step of a walk exists only once the loop has taken the result of the n-th.
C2_OneOutstandingPerTask ==
    /\ \A i \in Ids : Cardinality(PendingOf(i)) <= 1
    /\ \A i \in Ids :
          Cardinality({k \in DOMAIN futures :
                         k[1] = i /\ futures[k].status = "pending"}) <= 1
    /\ \A k \in DOMAIN futures : k[2] > 1 => Key(k[1], k[2] - 1) \in observed

\* A resubmitted step of one walk is outstanding while the other walk's is too.
C2_Witness ==
    /\ pc = "loop"
    /\ \E k \in pending : k[2] >= 2 /\ futures[k].status = "pending"
    /\ \E i \in Ids, k \in pending : PendingOf(i) # {} /\ k[1] # i

\* C6: a step failure of walk a does not keep any other walk b from its
\* terminal result: when the run has ended on a's failure, every other walk
\* has its "done" line.
C6_FailureIsolated ==
    (pc = "aborted" /\ error = "step") =>
        \A b \in Seeds \ {failedId} : DoneLines(b) # {}

\* C7: when the loop has observed a failed step of a walk, the output holds a
\* tagged error outcome for that walk, the exception has not left the loop,
\* and the walk has no step resubmitted.
C7_FailureBecomesOutcome ==
    failedId # -1 =>
        /\ ErrorLines(failedId) # {}
        /\ pc # "aborted"
        /\ PendingOf(failedId) = {}

\* C3: the for loop ends only when as_completed holds no future, and, the
\* cluster producing no failure and finishing every step it holds, the run
\* reaches the end of the loop with nothing pending.
C3_StopsWhenNothingPending ==
    /\ [](pc = "done" => pending = {})
    /\ ([](faults = 0) => <>(pc = "done" /\ pending = {}))

\* Two walks, one of them resubmitted, have run to the end of the loop.
C3_Witness ==
    /\ pc = "done"
    /\ num_walks = 2
    /\ pending = {}
    /\ \E i \in Seeds : submits[i] >= 2

\* The state part of C4: every future as_completed holds is live, was
\* submitted for an item no other held future carries, and has not been
\* taken by the loop.
C4_PendingInv ==
    /\ pc \in {"loop", "done", "aborted"} => pending \subseteq DOMAIN futures
    /\ pending \cap observed = {}
    /\ \A k \in pending : k[2] <= submits[k[1]]
    /\ \A k1 \in pending, k2 \in pending :
          futures[k1].arg = futures[k2].arg => k1 = k2

\* The step part of C4: the future the loop takes leaves the set in that
\* step, and is replaced by at most one future, of the same walk and only
\* when the predicate says continue; none when it says stop.
C4_PendingStep ==
    \A k \in observed' \ observed :
        LET new == pending' \ pending
            fin == futures[k].status = "finished"
        IN  /\ k \in pending
            /\ k \notin pending'
            /\ pending \ pending' = {k}
            /\ Cardinality(new) <= 1
            /\ \A n \in new :
                  /\ n[1] = k[1]
                  /\ fin
                  /\ should_continue(futures[k].res)
                  /\ futures'[n].arg[1] = k[1]
            /\ (fin /\ ~should_continue(futures[k].res)) => new = {}
            /\ (fin /\ should_continue(futures[k].res) /\ pc' = "loop") => new # {}

\* C4: the invariant on as_completed's set holds in every state, and every
\* step in which the loop takes a future removes it and replaces it as above.
C4_PendingSet == []C4_PendingInv /\ [][C4_PendingStep]_vars

\* The loop has taken a result and put the walk's next step in its place.
C4_Witness ==
    /\ pc = "loop"
    /\ \E k \in pending : k[2] >= 2 /\ Key(k[1], k[2] - 1) \in observed
    /\ \E i \in Seeds : DoneLines(i) # {}

C9_LoopLevelFailureAborts ==
    /\ error \in {"submit", "wait"} =>
          /\ pc = "aborted"
          /\ \A i \in Ids : ErrorLines(i) = {}
          /\ failedId = -1
    /\ pc = "aborted" => error # "none"

\* A resubmission failed in the middle of a run, a walk still pending.
C9_Witness ==
    /\ pc = "aborted"
    /\ error = "submit"
    /\ out # << >>
    /\ pending # {}

\* The end of the walk of seed i under a step function that draws nothing at
\* random: step applied to its own result until the predicate says stop.
RECURSIVE WalkEnd(_, _, _)
WalkEnd(kind, pos, fuel) ==
    LET d == CHOOSE d \in Draws(kind, pos, 1) : TRUE
        r == step(pos, d[1], d[2])
    IN  IF fuel = 0 \/ ~should_continue(r) THEN r
        ELSE WalkEnd(kind, r, fuel - 1)

Final(i) == WalkEnd(stepKind, <<i, 0, 0>>, 4 * Scale)

DonePositions == {j \in DOMAIN out : out[j][1] = "done"}

\* C10: under a step function that is a function of its argument, the
\* terminal value printed for a walk is the end of that walk's own chain,
\* whatever the order in which the pool finished the steps, and a run that
\* reaches the end of the loop has printed exactly these values.
C10_TerminalValuesOrderFree ==
    stepKind # "random" =>
        /\ \A j \in DonePositions : j > 1 /\ Val(j - 1) = Final(out[j][2])
        /\ pc = "done" =>
              {Val(j - 1) : j \in DonePositions} = {Final(i) : i \in Seeds}

\* Two walks of different step counts are done, the second seed first.
C10_Witness ==
    /\ stepKind = "byId"
    /\ pc = "done"
    /\ num_walks = 2
    /\ out[Len(out)] = <<"done", 0>>

\* ---------------------------------------------------------------------------
RECURSIVE SumTo(_, _)
SumTo(f, n) == IF n < 0 THEN 0 ELSE f[n] + SumTo(f, n - 1)

\* The results a first step on (i, 0, 0) can return.
FirstResults(i) ==
    {step(<<i, 0, 0>>, d[1], d[2]) : d \in Draws(stepKind, <<i, 0, 0>>, 1)}

\* C11: as long as the test of the loop body has been false on every result
\* the loop took, no walk has had a second submission or a second step; and
\* when such a run is over the steps run are as many as the seeds, and each
\* seed's output is its first result followed by its done line.
C11_OneStepWhenNeverContinued ==
    (\A j \in DOMAIN out : out[j][1] = "r" => ~should_continue(Val(j))) =>
        /\ \A i \in Ids : submits[i] <= 1 /\ invoked[i] <= 1
        /\ \A i \in Ids : \A j \in RLines(i) :
               /\ RLines(i) = {j}
               /\ Val(j) \in FirstResults(i)
               /\ DoneLines(i) = {j + 1}
        /\ pc = "done" =>
               /\ SumTo(invoked, MaxWalks - 1) = num_walks
               /\ \A i \in Seeds : Cardinality(RLines(i)) = 1

C11_Witness ==
    /\ stepKind = "plusTwoX"
    /\ pc = "done"
    /\ num_walks = 2
    /\ \A i \in Seeds : invoked[i] = 1 /\ DoneLines(i) # {}

\* C12: seeds (0,0,0) and (1,0,0), a step that always adds 0.5 to x, the test
\* "distance from the origin < 2": a walk is reported done after 4 steps and
\* at x = 2.0, y = 0, and at the end of the run the (id, final x) pairs are
\* {(0, 2.0), (1, 2.0)}, whatever the order the steps finished in.
C12_HalfStepScenario ==
    (stepKind = "plusHalfX" /\ num_walks = 2) =>
        /\ \A j \in DonePositions :
               /\ invoked[out[j][2]] = 4
               /\ Val(j - 1) = <<out[j][2], 2 * Scale, 0>>
        /\ pc = "done" =>
               /\ invoked[0] = 4 /\ invoked[1] = 4
               /\ {<<Val(j - 1)[1], Val(j - 1)[2]>> : j \in DonePositions}
                     = {<<0, 2 * Scale>>, <<1, 2 * Scale>>}

C12_Witness ==
    /\ stepKind = "plusHalfX"
    /\ num_walks = 2
    /\ pc = "done"
    /\ Len(out) = 10
    /\ out[5] = <<"done", 1>>
    /\ out[10] = <<"done", 0>>

\* The square of the distance of result line j from the origin, on the grid.
DistSq(j) == out[j][3] * out[j][3] + out[j][4] * out[j][4]

\* C13: a walk is reported done only when its walker is more than 2 units
\* from the origin; a walker at distance 2 or less, so one exactly on the
\* circle too, is given a further step and not reported done.
C13_DoneOnlyBeyondTwo ==
    \A j \in DOMAIN out :
        (out[j][1] = "r" /\ j < Len(out)) =>
            (out[j + 1][1] = "done"
                <=> DistSq(j) > max_distance_squared * Scale * Scale)

\* The futures whose step the pool still holds.
Outstanding == {k \in DOMAIN futures : futures[k].status = "pending"}

\* C14: once the loop has been stopped in mid-run (seeding was over and an
\* exception, the interrupt of the wait among them, has left the cell) nothing
\* is left on the pool: no submission is outstanding and the iterator holds none.
C14_NothingOutstandingAfterStop ==
    (pc = "aborted" /\ seedIdx = num_walks) => (Outstanding = {} /\ pending = {})

\* C15: when one walk's step has been cancelled (and the loop has run into
\* it), every other walk still gets its terminal result: the cancelled walk
\* is the only one without a done line.
C15_CancelLeavesOthers ==
    (pc = "aborted" /\ error = "cancelled") =>
        Cardinality({b \in Seeds : DoneLines(b) = {}}) <= 1

\* The live futures of the chain of walk i.
ChainOf(i) == {k \in DOMAIN futures : futures[k].arg[1] = i}

\* state part of C16: every future is keyed, run and answered under one id,
\* a seed's; while the loop runs each seed has either one live step under
\* its id or its done line, and every printed line carries a seed's id.
C16_IdInv ==
    /\ \A k \in DOMAIN futures :
          /\ futures[k].arg[1] = k[1]
          /\ futures[k].res[1] = k[1]
          /\ k[1] \in Seeds
    /\ \A j \in DOMAIN out : out[j][2] \in Seeds
    /\ pc \in {"loop", "done"} =>
          \A i \in Seeds :
              Cardinality(ChainOf(i)) + Cardinality(DoneLines(i)) = 1

\* step part of C16: a step's result has the id of the item it ran on, and
\* the item submitted after a result has the id of that result.
C16_IdStep ==
    /\ \A k \in DOMAIN futures :
          (k \in DOMAIN futures' /\ futures'[k].status = "finished")
              => futures'[k].res[1] = futures[k].arg[1]
    /\ \A k \in observed' \ observed :
          \A n \in (DOMAIN futures') \ (DOMAIN futures) :
              /\ futures'[n].arg[1] = futures[k].res[1]
              /\ futures'[n].arg[1] = futures[k].arg[1]
              /\ n = Key(k[1], k[2] + 1)

\* C16: the id of a walk is the same at every step of its chain: step returns
\* the id it was given, the loop resubmits the result under the result's id.
C16_IdentityPreserved == []C16_IdInv /\ [][C16_IdStep]_vars

C16_Witness ==
    /\ pc = "loop"
    /\ \E k \in DOMAIN futures :
          /\ k[1] = 1 /\ k[2] >= 3
          /\ futures[k].status = "finished"
          /\ futures[k].res[1] = 1
    /\ ChainOf(0) # {}

\* step part of C17: the future the loop takes is the one that finished first
\* among those waiting, and the lines the iteration prints are that walk's.
C17_TakesFirstFinished ==
    \A k \in observed' \ observed :
        /\ k = Head(queue)
        /\ queue' = Tail(queue)
        /\ \A j \in (DOMAIN out') \ (DOMAIN out) : out'[j][2] = k[1]

\* C17: done lines come out in the order in which the walks' last steps
\* finished, whatever the order of the seeds: the loop takes the finished
\* futures first-finished first, and a walk is reported done only once its
\* last submission has been taken.
C17_CompletionOrder ==
    /\ [][C17_TakesFirstFinished]_vars
    /\ [](\A i \in Ids : DoneLines(i) # {} => Key(i, submits[i]) \in observed)

\* Walk 1 is reported done before walk 0, and both are.
C17_Witness ==
    /\ stepKind = "random"
    /\ num_walks = 2
    /\ pc = "done"
    /\ \E j0 \in DoneLines(0), j1 \in DoneLines(1) : j1 < j0

\* C18: the loop has no step limit of its own.  With a step under which the
\* test never fails for walk 1 the for loop is never left normally, walk 1
\* always has a submission in as_completed and is never reported done, and it
\* is resubmitted as often as the pool runs its steps; walk 0, whose test does
\* fail, is still reported done (in the runs without failures).
C18_NoStepLimit ==
    /\ [](num_walks = 2 => pc # "done")
    /\ []((num_walks = 2 /\ pc = "loop") => PendingOf(1) # {})
    /\ [](DoneLines(1) = {})
    /\ [](faults = 0) => <>(DoneLines(0) # {})
    /\ (num_walks = 2 /\ [](faults = 0)) => <>(submits[1] = MaxSteps + 2)

C18_Witness ==
    /\ stepKind = "stayId1"
    /\ num_walks = 2
    /\ pc = "loop"
    /\ DoneLines(0) # {}
    /\ submits[1] = MaxSteps + 2
    /\ PendingOf(1) = {Key(1, MaxSteps + 2)}

\* The keys a resubmission can have.
ResubmittedKeys == {Key(i, n) : i \in Ids, n \in 2 .. (MaxSteps + 2)}

\* step part of C19: a future submitted by the loop body is in as_completed's
\* set from the step that submits it, the body's own result gone from it; and
\* the for loop is left normally only with no future outstanding.
C19_AddedToSameSet ==
    /\ pc = "loop" =>
          \A n \in (DOMAIN futures') \ (DOMAIN futures) :
              /\ n \in pending'
              /\ n[2] >= 2
              /\ pc' = "loop"
    /\ (pc = "loop" /\ pc' = "done") => (Outstanding = {} /\ queue = << >>)

\* C19: a step resubmitted from the loop body joins the set the loop is
\* waiting on, also when the result being processed was the last one
\* outstanding; the loop does not end while it is pending, and its result is
\* taken by the same loop (unless an exception leaves the cell first).
C19_ResubmittedIsDelivered ==
    /\ [][C19_AddedToSameSet]_vars
    /\ [](pc = "done" => DOMAIN futures = {})
    /\ \A k \in ResubmittedKeys :
          (k \in pending) ~> (k \in observed \/ pc = "aborted")

\* The loop waits on a resubmitted step alone: the only other walk is done.
C19_Witness ==
    /\ pc = "loop"
    /\ num_walks = 2
    /\ queue = << >>
    /\ \E k \in ResubmittedKeys :
          /\ pending = {k}
          /\ futures[k].status = "pending"
          /\ Key(k[1], k[2] - 1) \in observed
          /\ DoneLines(1 - k[1]) # {}

\* The fields of actor o as a reader of o.f sees them.
Fields(acts, clss, o) ==
    [f \in DOMAIN clss[acts[o].cls] |-> getattr(acts, clss, o, f)]

\* The attributes __init__ sets on an instance of class c.
InitFields(c) == (DOMAIN ClassDefaults[c]) \ {"distance_limit"}

\* The actors whose fields the step changes.
Changed == {o \in DOMAIN actors : Fields(actors', classes', o) # Fields(actors, classes, o)}

\* The step runs a part of a method of actor o.
MethodStepOf(o) ==
    \/ \E c \in DOMAIN calls :
          /\ calls[c].obj = o /\ calls[c].method = "walk"
          /\ calls'[c].steps = calls[c].steps + 1
    \/ \E c \in DOMAIN calls :
          /\ calls[c].target = o /\ actors[o].cls = "Bank"
          /\ calls[c].phase = "sent" /\ calls'[c].phase = "awaited"
    \/ \E c \in DOMAIN calls :
          /\ calls[c].obj = o /\ calls[c].method = "borrow"
          /\ calls[c].phase = "awaited" /\ calls'[c].phase = "returned"
    \/ /\ actors[o].cls = "Borrower"
       /\ calls' = calls
       /\ \E k \in InstancesOf("Bank") :
             Fields(actors', classes', o) = [Fields(actors, classes, o) EXCEPT !["bank"] = <<k>>]

\* state part of C20: the class bodies keep their defaults and every actor
\* has, as attributes of its own, all the fields its __init__ sets.
C20_OwnState ==
    /\ classes = ClassDefaults
    /\ \A o \in DOMAIN actors : DOMAIN actors[o].attrs = InitFields(actors[o].cls)

\* step part of C20: a step changes the fields of at most one actor, the one
\* whose method it runs; a construction changes no actor there was and gives
\* the new one fields of its own; no step changes a class's defaults.
C20_FrameStep ==
    /\ classes' = classes
    /\ Cardinality(Changed) <= 1
    /\ \A o \in Changed : MethodStepOf(o)
    /\ \A n \in (DOMAIN actors') \ (DOMAIN actors) :
          /\ Changed = {}
          /\ \A o \in DOMAIN actors : actors'[o] = actors[o]
          /\ DOMAIN actors'[n].attrs = InitFields(actors'[n].cls)

\* C20: every Walker, Bank and Borrower has state of its own: constructing an
\* actor or running walk, borrow or assign_bank on one changes neither the
\* fields of another actor nor the defaults in the class bodies.
C20_InstancesIndependent == []C20_OwnState /\ [][C20_FrameStep]_vars

\* Two walkers and a bank: the first walker has walked out of the circle, the
\* second is still at the origin under its own id, the bank has its funds.
C20_Witness ==
    /\ Len(actors) = 3
    /\ actors[1].cls = "Walker" /\ actors[2].cls = "Walker" /\ actors[3].cls = "Bank"
    /\ ~Inside(1)
    /\ getattr(actors, classes, 2, "x") = 0 /\ getattr(actors, classes, 2, "y") = 0
    /\ getattr(actors, classes, 1, "id") # getattr(actors, classes, 2, "id")
    /\ getattr(actors, classes, 3, "funds") = 1000
    /\ \E c \in DOMAIN calls : calls[c].obj = 1 /\ calls[c].phase = "returned"

\* The walks that have not been reported done.
NotDone == {i \in Seeds : DoneLines(i) = {}}

\* state part of C21: as_completed never holds more futures than there are
\* seeds, the pool never runs more steps than as_completed holds; between
\* two iterations of the loop the futures held are as many as the walks not
\* yet reported done, and one fewer at most when an exception has left the
\* loop from the iteration that was processing one.
C21_PendingCount ==
    /\ Cardinality(pending) <= num_walks
    /\ (pc # "seeding" /\ seedIdx = num_walks) => (Outstanding \subseteq pending)
    /\ Cardinality(Outstanding) <= num_walks
    /\ pc = "loop" => Cardinality(pending) = Cardinality(NotDone)
    /\ pc = "done" => (pending = {} /\ NotDone = {})
    /\ (pc = "aborted" /\ seedIdx = num_walks) =>
          Cardinality(pending) \in {Cardinality(NotDone), Cardinality(NotDone) - 1}

\* step part of C21: taking a completion never makes the set larger.
C21_NoIncrease ==
    observed' # observed => Cardinality(pending') <= Cardinality(pending)

\* C21: the number of outstanding submissions is at most the number of seeds,
\* it is the number of walks not yet reported done (less the one being
\* processed), and it never grows across a completion.
C21_PendingBounded == []C21_PendingCount /\ [][C21_NoIncrease]_vars

C21_Witness ==
    /\ pc = "loop"
    /\ num_walks = 2
    /\ Cardinality(pending) = 1
    /\ Cardinality(NotDone) = 1
    /\ \E k \in pending : k[2] >= 2

\* state part of C22: a walk that has been reported done has no future left,
\* neither on the pool nor in as_completed, and one done line.
C22_DoneHasNoStep ==
    \A i \in Ids :
        DoneLines(i) # {} =>
            /\ ChainOf(i) = {}
            /\ PendingOf(i) = {}
            /\ Cardinality(DoneLines(i)) = 1

\* step part of C22: no step is submitted for a walk that has been, or is
\* being, reported done.
C22_NoSubmitAfterDone ==
    \A i \in Ids :
        (\E j \in DOMAIN out' : out'[j] = <<"done", i>>) =>
            /\ submits'[i] = submits[i]
            /\ \A k \in DOMAIN futures' : k[1] = i => k \in DOMAIN futures

\* C22: once Walk i is done has been printed no further step is submitted
\* for i for the rest of the run.
C22_DoneIsFinal == []C22_DoneHasNoStep /\ [][C22_NoSubmitAfterDone]_vars

\* Walk 0 is done and the loop goes on resubmitting walk 1.
C22_Witness ==
    /\ pc = "loop"
    /\ DoneLines(0) # {}
    /\ submits[0] >= 2
    /\ \E k \in pending : k[1] = 1 /\ k[2] > submits[0] /\ Key(1, k[2] - 1) \in observed
    /\ \E d \in DoneLines(0), j \in RLines(1) : j > d

\* The funds of bank k.
FundsOf(acts, clss, k) == getattr(acts, clss, k, "funds")

\* state part of C23: no bank has negative funds, and a borrow that has
\* returned has returned the loan the bank granted.
C23_FundsNonNegative ==
    /\ \A k \in InstancesOf("Bank") : FundsOf(actors, classes, k) >= 0
    /\ \A c \in DOMAIN calls :
          (calls[c].method = "borrow" /\ calls[c].phase = "returned")
              => calls[c].result = calls[c].loan

\* step part of C23: a run of Bank.borrow grants the smaller of the amount
\* and the funds it finds, takes exactly the loan off the funds, and grants
\* 0 when the funds are 0.
C23_BorrowStep ==
    \A c \in DOMAIN calls :
        (calls[c].phase = "sent" /\ calls'[c].phase = "awaited") =>
            LET k == calls[c].target
                before == FundsOf(actors, classes, k)
                after == FundsOf(actors', classes', k)
                loan == calls'[c].loan
            IN  /\ loan = (IF calls[c].amount <= before THEN calls[c].amount ELSE before)
                /\ after = before - loan
                /\ before = 0 => (loan = 0 /\ after = 0)

\* C23: the funds of a bank are never negative, each loan is
\* min(amount, funds before the call) and comes off the funds exactly, and
\* a bank with no funds lends 0.
C23_BankNeverOverdrawn == []C23_FundsNonNegative /\ [][C23_BorrowStep]_vars

\* A bank of 100 has lent its 100 and then 0.
C23_Witness ==
    \E k \in InstancesOf("Bank") :
        /\ FundsOf(actors, classes, k) = 0
        /\ \E c1, c2 \in DOMAIN calls :
              /\ c1 < c2
              /\ calls[c1].target = k /\ calls[c1].phase = "returned"
              /\ calls[c1].result = 100
              /\ calls[c2].target = k /\ calls[c2].phase = "returned"
              /\ calls[c2].result = 0

RECURSIVE SumSeq(_)
SumSeq(s) == IF s = << >> THEN 0 ELSE Head(s) + SumSeq(Tail(s))

\* The funds of all the banks together.
AllFunds(acts, clss) ==
    SumSeq([o \in DOMAIN acts |->
               IF acts[o].cls = "Bank" THEN FundsOf(acts, clss, o) ELSE 0])

\* The debts of all the borrowers together.
AllDebt(acts, clss) ==
    SumSeq([o \in DOMAIN acts |->
               IF acts[o].cls = "Borrower" THEN getattr(acts, clss, o, "debt") ELSE 0])

\* The loans a bank has granted and the borrower has not yet added to its debt.
InFlight(cs) ==
    SumSeq([c \in DOMAIN cs |-> IF cs[c].phase = "awaited" THEN cs[c].loan ELSE 0])

\* The loans returned to borrower b.
LoansReturned(b) ==
    SumSeq([c \in DOMAIN calls |->
               IF calls[c].obj = b /\ calls[c].method = "borrow"
                  /\ calls[c].phase = "returned"
               THEN calls[c].result ELSE 0])

\* The funds the banks constructed by the step are constructed with.
NewFunds ==
    SumSeq([o \in DOMAIN actors' |->
               IF o \notin DOMAIN actors /\ actors'[o].cls = "Bank"
               THEN FundsOf(actors', classes', o) ELSE 0])

\* state part of C24: the debt of a borrower is the sum of the loans
\* returned to it.
C24_DebtIsLoans ==
    \A b \in InstancesOf("Borrower") :
        getattr(actors, classes, b, "debt") = LoansReturned(b)

\* step part of C24: funds, debts and the loans on their way from a bank to
\* a borrower add up to the same in every step, the funds of a new bank
\* apart: what the banks lose the borrowers owe.
C24_MoneyStep ==
    AllFunds(actors', classes') + AllDebt(actors', classes') + InFlight(calls')
        = AllFunds(actors, classes) + AllDebt(actors, classes) + InFlight(calls)
          + NewFunds

\* C24: money is conserved between borrowers and banks: the debt of a
\* borrower is the sum of the loans returned to it, and once the calls are
\* over the debts are what the funds of the banks have gone down by.
C24_MoneyConserved == []C24_DebtIsLoans /\ [][C24_MoneyStep]_vars

\* The notebook's run: a borrower, a bank of 1000, a bank of 100; 600 and 500
\* borrowed from the first, 500 from the second: loans 600, 400, 100, debt 1100.
C24_Witness ==
    /\ Len(actors) = 3
    /\ actors[1].cls = "Borrower" /\ actors[2].cls = "Bank" /\ actors[3].cls = "Bank"
    /\ Len(calls) = 3
    /\ \A c \in DOMAIN calls : calls[c].obj = 1 /\ calls[c].phase = "returned"
    /\ <<calls[1].amount, calls[2].amount, calls[3].amount>> = <<600, 500, 500>>
    /\ <<calls[1].target, calls[2].target, calls[3].target>> = <<2, 2, 3>>
    /\ <<calls[1].result, calls[2].result, calls[3].result>> = <<600, 400, 100>>
    /\ getattr(actors, classes, 1, "debt") = 1100
    /\ FundsOf(actors, classes, 2) = 0 /\ FundsOf(actors, classes, 3) = 0

\* The loans bank k has granted, in the calls cs.
Granted(cs, k) ==
    SumSeq([c \in DOMAIN cs |->
               IF cs[c].target = k /\ cs[c].phase \in {"awaited", "returned"}
               THEN cs[c].loan ELSE 0])

\* The loans granted to borrower b, in the calls cs.
OwnLoans(cs, b) ==
    SumSeq([c \in DOMAIN cs |->
               IF cs[c].obj = b /\ cs[c].phase \in {"awaited", "returned"}
               THEN cs[c].loan ELSE 0])

\* No borrow is between its call and its return.
AllFinished == \A c \in DOMAIN calls : calls[c].phase \in {"returned", "raised"}

\* state part of C25: no bank is overdrawn, whatever the order the borrow
\* coroutines reach it in; when every call has finished the debt of each
\* borrower is the sum of its own loans, and before that it lacks exactly
\* the loans still on their way to it.
C25_NoLostUpdate ==
    /\ \A k \in InstancesOf("Bank") : FundsOf(actors, classes, k) >= 0
    /\ \A b \in InstancesOf("Borrower") :
          /\ AllFinished => getattr(actors, classes, b, "debt") = OwnLoans(calls, b)
          /\ getattr(actors, classes, b, "debt") <= OwnLoans(calls, b)

\* step part of C25: what a bank has granted and what it has left add up to
\* the funds it was constructed with, at every step.
C25_GrantedStep ==
    /\ \A k \in InstancesOf("Bank") :
          Granted(calls', k) + FundsOf(actors', classes', k)
              = Granted(calls, k) + FundsOf(actors, classes, k)
    /\ \A n \in (DOMAIN actors') \ (DOMAIN actors) : Granted(calls', n) = 0

\* C25: borrow coroutines running concurrently against one bank, interleaved
\* at the await of Borrower.borrow, never overdraw it and lose no update: the
\* loans granted never exceed the funds the bank was constructed with, and
\* after all calls each borrower's debt is the sum of its own loans.
C25_ConcurrentBorrows == []C25_NoLostUpdate /\ [][C25_GrantedStep]_vars

\* Two borrowers ask one bank of 1000 for 600 each, the calls overlap and the
\* bank serves the second call first: loans 400 and 600, debts 400 and 600.
C25_Witness ==
    /\ Len(calls) >= 2
    /\ calls[1].obj # calls[2].obj
    /\ calls[1].target = calls[2].target
    /\ calls[1].amount = 600 /\ calls[2].amount = 600
    /\ calls[1].phase = "returned" /\ calls[2].phase = "returned"
    /\ calls[1].result = 400 /\ calls[2].result = 600
    /\ getattr(actors, classes, calls[1].obj, "debt") = 400
    /\ getattr(actors, classes, calls[2].obj, "debt") = 600
    /\ FundsOf(actors, classes, calls[1].target) = 0

\* The position of walker w.
PosOf(acts, clss, w) == <<getattr(acts, clss, w, "x"), getattr(acts, clss, w, "y")>>

\* The walk calls that have returned.
WalksReturned == {c \in DOMAIN calls : calls[c].method = "walk" /\ calls[c].phase = "returned"}

\* state part of C26: a walk that has returned has returned its count of
\* turns and has left its walker on or outside the circle; a walk made on a
\* walker after another walk of it has returned has returned 0.
C26_ReturnsSteps ==
    /\ \A c \in WalksReturned :
          /\ calls[c].result = calls[c].steps
          /\ ~Inside(calls[c].obj)
    /\ \A c1, c2 \in WalksReturned :
          (c1 < c2 /\ calls[c1].obj = calls[c2].obj) => calls[c2].result = 0

\* step part of C26: the position of a walker changes exactly in the steps
\* in which a running walk of it counts one more turn; a walker on or outside
\* the circle keeps its position; no step changes the id of a walker.
C26_WalkStep ==
    \A w \in InstancesOf("Walker") :
        LET moved == PosOf(actors', classes', w) # PosOf(actors, classes, w)
            counted == \E c \in DOMAIN calls :
                          /\ calls[c].obj = w /\ calls[c].phase = "running"
                          /\ calls'[c].steps = calls[c].steps + 1
            same == \A c \in DOMAIN calls :
                          calls[c].obj = w => calls'[c].steps = calls[c].steps
        IN  /\ moved <=> counted
            /\ ~moved => same
            /\ ~Inside(w) => ~moved
            /\ getattr(actors', classes', w, "id") = getattr(actors, classes, w, "id")

\* C26: walk returns the number of position updates it made and returns
\* with x^2 + y^2 >= distance_limit; a second walk on the same walker
\* returns 0 and leaves x and y as they are; walk never changes id.
C26_WalkCountsUpdates == []C26_ReturnsSteps /\ [][C26_WalkStep]_vars

\* A walker has walked out in two turns or more and has been walked again.
C26_Witness ==
    \E c1, c2 \in WalksReturned :
        /\ c1 < c2
        /\ calls[c1].obj = calls[c2].obj
        /\ calls[c1].result >= 2
        /\ calls[c2].result = 0
        /\ getattr(actors, classes, calls[c1].obj, "id") = 42

====
